---- MODULE Spec2Model ----
(***************************************************************************)
(* A model of the minesweeper rules engine: the Field of Zones             *)
(* (src/src/model.rs) and the MinesweeperController built on it            *)
(* (src/src/controller.rs).                                                *)
(*                                                                         *)
(* The controller calls a Field interface (is_flagged_at, has_mine_at,     *)
(* mines_adjacent_to, change_flag_at, reveal_at) whose code is not among   *)
(* the sources; those five operators are written from the specification's  *)
(* section 4.1. Everything else is translated from the Rust code.          *)
(*                                                                         *)
(* Rust's unsigned subtraction `x - 1` at x = 0 panics when the build has  *)
(* overflow checks (the dev profile) and wraps to usize::MAX otherwise     *)
(* (the release profile). The build is chosen once, in Init, and both      *)
(* outcomes are explored.                                                  *)
(***************************************************************************)
EXTENDS Integers, Sequences, FiniteSets, Bags, TLC

\* ---- bounds of the model ------------------------------------------------
MaxDim == 3
MaxMines == 2
MaxOps == 3
MaxWorklistCells == 6

\* Stand-in for usize::MAX: the largest integer the checker represents. Only
\* its being larger than every grid dimension matters.
UsizeMax == 2147483647

VARIABLES
    arg_width,              \* the width given to Field::new
    arg_height,             \* the height given to Field::new
    overflow_checks,        \* TRUE: the build panics on integer overflow
    model,                  \* MinesweeperController.model, a Field
    num_correctly_flagged,  \* MinesweeperController.num_correctly_flagged
    exploded_mine,          \* MinesweeperController.exploded_mine: <<>> or <<x, y>>
    panicked,               \* the process has been aborted by a panic
    last,                   \* the last call made by the driver and its result
    nops,                   \* number of calls made so far
    arg_num_mines,          \* the num_mines given to Field::new
    coordinates,            \* generate_placements: the coordinates drawn so far
    pc,                     \* "placing": in generate_placements; "playing": between
                            \* calls; "cascade": in cascading_reveal_from
    cascade_stack,          \* cascading_reveal_from: stack
    reveals,                \* successful reveal_at calls of the running cascade
    called_on               \* the controller when the running reveal was called

vars == <<arg_width, arg_height, overflow_checks, model, num_correctly_flagged,
          exploded_mine, panicked, last, nops, arg_num_mines, coordinates, pc,
          cascade_stack, reveals, called_on>>

\* ---- results -------------------------------------------------------------
\* Result / Option values: kind is "Ok", "Err", "OutOfBounds", "NoOp", "None" or
\* "Panic"; val carries the payload of Ok / Some.
Res(kind, val) == [kind |-> kind, val |-> val]

None == <<>>

Some(x, y) == <<x, y>>

\* ---- Zone ----------------------------------------------------------------
Zone_new(has_mine) ==
    [flagged |-> FALSE, revealed |-> FALSE, has_mine |-> has_mine, adj_mine_count |-> 0]

\* ---- Field: storage ------------------------------------------------------
\* grid is a Vec of columns: grid[x][y], x in 0..width-1, y in 0..height-1.
generate_grid(w, h, mine_placements) ==
    [x \in 0..(w - 1) |-> [y \in 0..(h - 1) |-> Zone_new(<<x, y>> \in mine_placements)]]

\* grid.len()
GridLen(grid) == Cardinality(DOMAIN grid)

\* self.grid.len()
height(f) == GridLen(f.grid)

\* self.grid[0].len()
width(f) == GridLen(f.grid[0])

\* self.grid.get(x)?.get(y) is Some
get_zone_at(f, x, y) == x \in DOMAIN f.grid /\ y \in DOMAIN f.grid[x]

\* the coordinates of the grid
Cells(f) == {c \in (DOMAIN f.grid) \X (0..(MaxDim + 1)) : c[2] \in DOMAIN f.grid[c[1]]}

ZoneAt(f, c) == f.grid[c[1]][c[2]]

\* ---- usize arithmetic ----------------------------------------------------
\* `v - 1` in a build without overflow checks
wrapping_dec(v) == IF v = 0 THEN UsizeMax ELSE v - 1

\* a..=b as the sequence of its values (empty when a > b)
RangeInclusive(a, b) == IF a > b THEN <<>> ELSE [i \in 1..(b - a + 1) |-> a + i - 1]

\* ---- Field::adjacent_positions -------------------------------------------
\* the candidate positions before the in-bounds filter, in the order pushed
CandidatePositions(x, y, include_diag) ==
    IF include_diag
    THEN LET xs == RangeInclusive(wrapping_dec(x), x + 1)
             ys == RangeInclusive(wrapping_dec(y), y + 1)
             n == Len(xs)
             m == Len(ys)
             all == [k \in 1..(n * m) |-> <<xs[((k - 1) \div m) + 1], ys[((k - 1) % m) + 1]>>]
         IN  SelectSeq(all, LAMBDA p : p[1] # x \/ p[2] # y)
    ELSE <<  <<x, wrapping_dec(y)>>, <<wrapping_dec(x), y>>, <<x + 1, y>>, <<x, y + 1>>  >>

\* TRUE when evaluating `x - 1` or `y - 1` overflows
SubtractOverflows(x, y) == x = 0 \/ y = 0

\* The Vec returned (kind "Ok"), or "Panic" when the build checks overflow and
\* a subtraction overflows.
adjacent_positions(f, oc, x, y, include_diag) ==
    IF oc /\ SubtractOverflows(x, y)
    THEN Res("Panic", <<>>)
    ELSE Res("Ok", SelectSeq(CandidatePositions(x, y, include_diag),
                             LAMBDA p : get_zone_at(f, p[1], p[2])))

SeqToSet(s) == {s[i] : i \in DOMAIN s}

\* ---- Field::set_counts ---------------------------------------------------
\* [panicked, f]: the Field with every Zone's adj_mine_count set, or a panic
set_counts(f, oc, mine_placements) ==
    IF \E x \in 0..(width(f) - 1), y \in 0..(height(f) - 1) : ~get_zone_at(f, x, y)
    THEN \* self.grid[x][y]: index out of bounds
         [panicked |-> TRUE, f |-> f]
    ELSE IF \E m \in mine_placements :
                adjacent_positions(f, oc, m[1], m[2], TRUE).kind = "Panic"
    THEN [panicked |-> TRUE, f |-> f]
    ELSE LET count(c) == Cardinality({m \in mine_placements :
                 c \in SeqToSet(adjacent_positions(f, oc, m[1], m[2], TRUE).val)})
         IN  [panicked |-> FALSE,
              f |-> [f EXCEPT !.grid = [x \in DOMAIN f.grid |-> [y \in DOMAIN f.grid[x] |->
                        [f.grid[x][y] EXCEPT !.adj_mine_count = count(<<x, y>>)]]]]]

\* ---- Field::new ----------------------------------------------------------
\* placements is the set generate_placements drew
Field_new(w, h, oc, placements) ==
    LET freshly_made == [num_mines |-> Cardinality(placements),
                         num_flagged |-> 0,
                         num_correctly_flagged |-> 0,
                         exploded |-> FALSE,
                         grid |-> generate_grid(w, h, placements)]
    IN  set_counts(freshly_made, oc, placements)

\* the sets of num_mines distinct coordinates generate_placements can return
generate_placements(num_mines, upper_x_bound, upper_y_bound) ==
    {s \in SUBSET ((0..(upper_x_bound - 1)) \X (0..(upper_y_bound - 1))) :
        Cardinality(s) = num_mines}

\* ---- Init: main builds the Field and wraps it in a controller ------------
Init ==
    /\ arg_width \in 1..MaxDim
    /\ arg_height \in 1..MaxDim
    /\ overflow_checks \in BOOLEAN
    /\ \E n \in 0..MaxMines :
         /\ n <= arg_width * arg_height
         /\ arg_num_mines = n
         /\ \E placements \in generate_placements(n, arg_width, arg_height) :
              LET made == Field_new(arg_width, arg_height, overflow_checks, placements)
              IN  /\ model = made.f
                  /\ panicked = made.panicked
                  /\ last = [op |-> "new", x |-> 0, y |-> 0,
                             kind |-> IF made.panicked THEN "Panic" ELSE "Ok",
                             val |-> FALSE]
                  /\ coordinates = placements
    /\ num_correctly_flagged = 0
    /\ exploded_mine = None
    /\ nops = 0
    /\ pc = "playing"
    /\ cascade_stack = <<>>
    /\ reveals = 0
    /\ called_on = None

\* ---- Field: the operations of src/src/model.rs --------------------------
\* (mutant) num_flagged is incremented whether or not the Zone was flagged
flag_zone_CountsAlways(f, x, y) ==
    IF ~get_zone_at(f, x, y) THEN [f |-> f, res |-> Res("Err", FALSE)]
    ELSE [f |-> [f EXCEPT !.grid[x][y].flagged = TRUE,
                          !.num_correctly_flagged =
                              IF f.grid[x][y].has_mine /\ ~f.grid[x][y].flagged
                              THEN @ + 1 ELSE @,
                          !.num_flagged = @ + 1],
          res |-> Res("Ok", FALSE)]

\* [f, res]: Err(()) off the grid, else Ok(()); an already flagged Zone is left
\* alone
flag_zone(f, x, y) ==
    IF ~get_zone_at(f, x, y) THEN [f |-> f, res |-> Res("Err", FALSE)]
    ELSE IF ~f.grid[x][y].flagged
    THEN [f |-> [f EXCEPT !.grid[x][y].flagged = TRUE,
                          !.num_correctly_flagged =
                              IF f.grid[x][y].has_mine THEN @ + 1 ELSE @,
                          !.num_flagged = @ + 1],
          res |-> Res("Ok", FALSE)]
    ELSE [f |-> f, res |-> Res("Ok", FALSE)]

unflag_zone(f, x, y) ==
    IF ~get_zone_at(f, x, y) THEN [f |-> f, res |-> Res("Err", FALSE)]
    ELSE IF f.grid[x][y].flagged
    THEN [f |-> [f EXCEPT !.grid[x][y].flagged = FALSE,
                          !.num_correctly_flagged =
                              IF f.grid[x][y].has_mine THEN @ - 1 ELSE @,
                          !.num_flagged = @ - 1],
          res |-> Res("Ok", FALSE)]
    ELSE [f |-> f, res |-> Res("Ok", FALSE)]

\* self.exploded = true
explode(f) == [f EXCEPT !.exploded = TRUE]

\* [f, res, panicked]: reveal_zone, and its loop over the adjacent positions
\* still to visit
RECURSIVE reveal_zone(_, _, _, _)
RECURSIVE RevealAdjacent(_, _, _)
RevealAdjacent(f, oc, todo) ==
    IF todo = <<>> THEN [f |-> f, res |-> Res("Ok", FALSE), panicked |-> FALSE]
    ELSE LET p == Head(todo)
             adj_zone == f.grid[p[1]][p[2]]
         IN  IF ~adj_zone.has_mine /\ adj_zone.adj_mine_count = 0
             THEN LET r == reveal_zone(f, oc, p[1], p[2])
                  IN  IF r.panicked \/ r.res.kind # "Ok"
                      THEN [f |-> r.f, res |-> Res("Panic", FALSE), panicked |-> TRUE]
                      ELSE RevealAdjacent(r.f, oc, Tail(todo))
             ELSE RevealAdjacent(f, oc, Tail(todo))

reveal_zone(f, oc, x, y) ==
    IF ~get_zone_at(f, x, y)
    THEN [f |-> f, res |-> Res("Err", FALSE), panicked |-> FALSE]
    ELSE IF f.grid[x][y].revealed
    THEN [f |-> f, res |-> Res("Ok", FALSE), panicked |-> FALSE]
    ELSE LET shown == [f EXCEPT !.grid[x][y].revealed = TRUE]
         IN  IF shown.grid[x][y].has_mine
             THEN [f |-> explode(shown), res |-> Res("Ok", FALSE), panicked |-> FALSE]
             ELSE IF shown.grid[x][y].adj_mine_count = 0
             THEN LET adj == adjacent_positions(shown, oc, x, y, FALSE)
                  IN  IF adj.kind = "Panic"
                      THEN [f |-> shown, res |-> Res("Panic", FALSE), panicked |-> TRUE]
                      ELSE RevealAdjacent(shown, oc, adj.val)
             ELSE [f |-> shown, res |-> Res("Ok", FALSE), panicked |-> FALSE]

\* ---- the Field interface the controller calls (specification, section 4.1)
\* Option<bool>: None when (x, y) is off the grid
is_flagged_at(f, x, y) ==
    IF get_zone_at(f, x, y) THEN Res("Some", f.grid[x][y].flagged) ELSE Res("None", FALSE)

has_mine_at(f, x, y) ==
    IF get_zone_at(f, x, y) THEN Res("Ok", f.grid[x][y].has_mine) ELSE Res("OutOfBounds", FALSE)

is_revealed_at(f, x, y) ==
    IF get_zone_at(f, x, y) THEN Res("Ok", f.grid[x][y].revealed) ELSE Res("OutOfBounds", FALSE)

mines_adjacent_to(f, x, y) ==
    IF get_zone_at(f, x, y) THEN Res("Ok", f.grid[x][y].adj_mine_count) ELSE Res("OutOfBounds", 0)

\* set_flag: [f, res]
change_flag_at(f, x, y, desired) ==
    IF ~get_zone_at(f, x, y) THEN [f |-> f, res |-> Res("OutOfBounds", FALSE)]
    ELSE IF f.grid[x][y].flagged = desired THEN [f |-> f, res |-> Res("NoOp", FALSE)]
    ELSE [f |-> [f EXCEPT !.grid[x][y].flagged = desired,
                          !.num_flagged = IF desired THEN @ + 1 ELSE @ - 1],
          res |-> Res("Ok", FALSE)]

\* (mutant) revealing a Zone takes its flag off
reveal_at_ClearsFlag(f, x, y) ==
    IF ~get_zone_at(f, x, y) THEN [f |-> f, res |-> Res("OutOfBounds", FALSE)]
    ELSE IF f.grid[x][y].revealed THEN [f |-> f, res |-> Res("NoOp", FALSE)]
    ELSE [f |-> [f EXCEPT !.grid[x][y].revealed = TRUE, !.grid[x][y].flagged = FALSE],
          res |-> Res("Ok", f.grid[x][y].has_mine)]

\* reveal: [f, res], res.val is has_mine
reveal_at(f, x, y) ==
    IF ~get_zone_at(f, x, y) THEN [f |-> f, res |-> Res("OutOfBounds", FALSE)]
    ELSE IF f.grid[x][y].revealed THEN [f |-> f, res |-> Res("NoOp", FALSE)]
    ELSE [f |-> [f EXCEPT !.grid[x][y].revealed = TRUE],
          res |-> Res("Ok", f.grid[x][y].has_mine)]

\* ---- MinesweeperController -----------------------------------------------
\* A controller value: [model, num_correctly_flagged, exploded_mine, panicked].

\* (mutant) compares with the number of mines instead of the number of flags
won_AllMinesFlagged(c) == c.num_correctly_flagged = c.model.num_mines

\* self.num_correctly_flagged == self.model.num_flagged()
won(c) == c.num_correctly_flagged = c.model.num_flagged

\* self.exploded_mine.is_none()
lost(c) == c.exploded_mine = None

exploded_mine_pos(c) == c.exploded_mine

\* (mutant) counts every flag, whether or not the Zone holds a mine
CountCorrectFlag_AnyZone(n, has_mine, add_flag) == IF add_flag THEN n + 1 ELSE n - 1

\* the update of num_correctly_flagged after the flag of a Zone was changed
CountCorrectFlag(n, has_mine, add_flag) ==
    IF has_mine THEN (IF add_flag THEN n + 1 ELSE n - 1) ELSE n

\* (mutant) always asks for a flag
ToggledFlag_AlwaysAdd(b) == TRUE

\* the flag state toggle_flag_at asks for, given the observed one
ToggledFlag(b) == ~b

\* (mutant) unwraps the Option instead of returning Err off the grid
toggle_flag_at_Unwrap(c, x, y) ==
    LET observed == is_flagged_at(c.model, x, y)
    IN  IF observed.kind = "None"
        THEN [c |-> [c EXCEPT !.panicked = TRUE], res |-> Res("Panic", FALSE)]
        ELSE LET add_flag == ToggledFlag(observed.val)
                 changed == change_flag_at(c.model, x, y, add_flag)
             IN  [c |-> [c EXCEPT !.model = changed.f,
                                  !.num_correctly_flagged =
                                      CountCorrectFlag(@, has_mine_at(changed.f, x, y).val,
                                                       add_flag)],
                  res |-> Res("Ok", add_flag)]

\* [c, res]: res.val is add_flag
toggle_flag_at(c, x, y) ==
    LET observed == is_flagged_at(c.model, x, y)
    IN  IF observed.kind = "None" THEN [c |-> c, res |-> Res("Err", FALSE)]
        ELSE LET add_flag == ToggledFlag(observed.val)
                 changed == change_flag_at(c.model, x, y, add_flag)
             IN  IF changed.res.kind # "Ok"
                 THEN \* .unwrap() on an Err
                      [c |-> [c EXCEPT !.panicked = TRUE], res |-> Res("Panic", FALSE)]
                 ELSE [c |-> [c EXCEPT !.model = changed.f,
                                       !.num_correctly_flagged =
                                           CountCorrectFlag(@, has_mine_at(changed.f, x, y).val,
                                                            add_flag)],
                       res |-> Res("Ok", add_flag)]

\* the positions a successful reveal of (x, y) pushes: the adjacent positions
\* with 0 adjacent mines
PushedBy(f, positions) ==
    SelectSeq(positions, LAMBDA p : mines_adjacent_to(f, p[1], p[2]).val = 0)

\* the `while let Some((x, y)) = stack.pop()` loop: the controller when the
\* stack is empty, or at the panic
RECURSIVE CascadeLoop(_, _, _)
CascadeLoop(c, oc, stack) ==
    IF stack = <<>> THEN c
    ELSE LET top == stack[Len(stack)]
             rest == SubSeq(stack, 1, Len(stack) - 1)
             r == reveal_at(c.model, top[1], top[2])
         IN  IF r.res.kind = "Ok"
             THEN LET adj == adjacent_positions(r.f, oc, top[1], top[2], FALSE)
                  IN  IF adj.kind = "Panic"
                      THEN [c EXCEPT !.model = r.f, !.panicked = TRUE]
                      ELSE CascadeLoop([c EXCEPT !.model = r.f], oc,
                                       rest \o PushedBy(r.f, adj.val))
             ELSE IF r.res.kind = "NoOp"
             THEN CascadeLoop(c, oc, rest)
             ELSE \* Err(OutOfBounds) => panic!
                  [c EXCEPT !.panicked = TRUE]

cascading_reveal_from(c, oc, starting_x, starting_y) ==
    LET adj == adjacent_positions(c.model, oc, starting_x, starting_y, FALSE)
    IN  IF adj.kind = "Panic" THEN [c EXCEPT !.panicked = TRUE]
        ELSE CascadeLoop(c, oc, adj.val)

\* (mutant) the cascade starts whatever mines_adjacent_to returns
reveal_zone_at_AlwaysCascade(c, oc, x, y) ==
    LET r == reveal_at(c.model, x, y)
    IN  IF r.res.kind # "Ok" THEN [c |-> c, res |-> r.res]
        ELSE LET revealed == [c EXCEPT !.model = r.f]
                 after == IF r.res.val
                          THEN [revealed EXCEPT !.exploded_mine = Some(x, y)]
                          ELSE cascading_reveal_from(revealed, oc, x, y)
             IN  [c |-> after,
                  res |-> IF after.panicked THEN Res("Panic", FALSE) ELSE r.res]

\* [c, res]: res.val is has_mine
reveal_zone_at(c, oc, x, y) ==
    LET r == reveal_at(c.model, x, y)
    IN  IF r.res.kind # "Ok" THEN [c |-> c, res |-> r.res]
        ELSE LET revealed == [c EXCEPT !.model = r.f]
                 after == IF r.res.val
                          THEN [revealed EXCEPT !.exploded_mine = Some(x, y)]
                          ELSE IF mines_adjacent_to(r.f, x, y).val = 0
                          THEN cascading_reveal_from(revealed, oc, x, y)
                          ELSE revealed
             IN  [c |-> after,
                  res |-> IF after.panicked THEN Res("Panic", FALSE) ELSE r.res]

\* ---- the driver's calls --------------------------------------------------
\* the controller held in the variables
Ctl ==
    [model |-> model, num_correctly_flagged |-> num_correctly_flagged,
     exploded_mine |-> exploded_mine, panicked |-> panicked]

\* the coordinates the driver passes: those of a width x height grid, and
\* (width, 0) and (0, height) just beyond it
Coords ==
    {p \in (0..arg_width) \X (0..arg_height) :
        \/ p[1] < arg_width /\ p[2] < arg_height
        \/ p = <<arg_width, 0>>
        \/ p = <<0, arg_height>>}

CanCall == ~panicked /\ nops < MaxOps /\ pc = "playing"

Becomes(c, op, x, y, res) ==
    /\ model' = c.model
    /\ num_correctly_flagged' = c.num_correctly_flagged
    /\ exploded_mine' = c.exploded_mine
    /\ panicked' = c.panicked
    /\ last' = [op |-> op, x |-> x, y |-> y, kind |-> res.kind, val |-> res.val]
    /\ nops' = nops + 1
    /\ UNCHANGED <<arg_width, arg_height, overflow_checks, arg_num_mines, coordinates, pc,
                   cascade_stack, reveals, called_on>>

ToggleFlag ==
    /\ CanCall
    /\ \E p \in Coords :
         LET r == toggle_flag_at(Ctl, p[1], p[2])
         IN  Becomes(r.c, "toggle_flag_at", p[1], p[2], r.res)

Reveal ==
    /\ CanCall
    /\ \E p \in Coords :
         LET r == reveal_zone_at(Ctl, overflow_checks, p[1], p[2])
         IN  Becomes(r.c, "reveal_zone_at", p[1], p[2], r.res)

Next == ToggleFlag \/ Reveal

Spec == Init /\ [][Next]_vars

\* ---- the Field called directly (the operations of src/src/model.rs) ------
FieldBecomes(f, p, op, x, y, res) ==
    /\ model' = f
    /\ panicked' = p
    /\ last' = [op |-> op, x |-> x, y |-> y, kind |-> res.kind, val |-> res.val]
    /\ nops' = nops + 1
    /\ UNCHANGED <<arg_width, arg_height, overflow_checks, num_correctly_flagged,
                   exploded_mine, arg_num_mines, coordinates, pc, cascade_stack, reveals,
                   called_on>>

FlagZone ==
    /\ CanCall
    /\ \E p \in Coords :
         LET r == flag_zone(model, p[1], p[2])
         IN  FieldBecomes(r.f, FALSE, "flag_zone", p[1], p[2], r.res)

UnflagZone ==
    /\ CanCall
    /\ \E p \in Coords :
         LET r == unflag_zone(model, p[1], p[2])
         IN  FieldBecomes(r.f, FALSE, "unflag_zone", p[1], p[2], r.res)

RevealZone ==
    /\ CanCall
    /\ \E p \in Coords :
         LET r == reveal_zone(model, overflow_checks, p[1], p[2])
         IN  FieldBecomes(r.f, r.panicked, "reveal_zone", p[1], p[2], r.res)

FieldNext == FlagZone \/ UnflagZone \/ RevealZone

FieldSpec == Init /\ [][FieldNext]_vars

\* ---- reveal_zone_at step by step: one action per pop of the stack --------
\* (mutant) Err(NoOp) => break
NoOpContinues_Break == FALSE

\* Err(NoOp) => continue: the loop goes on with the rest of the stack
NoOpContinues == TRUE

\* one iteration of the loop on the position taken from the stack:
\* [c, pushed, ok, continues], ok telling whether reveal_at succeeded
CascadePop(c, oc, top) ==
    LET r == reveal_at(c.model, top[1], top[2])
    IN  IF r.res.kind = "Ok"
        THEN LET adj == adjacent_positions(r.f, oc, top[1], top[2], FALSE)
             IN  IF adj.kind = "Panic"
                 THEN [c |-> [c EXCEPT !.model = r.f, !.panicked = TRUE],
                       pushed |-> <<>>, ok |-> TRUE, continues |-> FALSE]
                 ELSE [c |-> [c EXCEPT !.model = r.f],
                       pushed |-> PushedBy(r.f, adj.val), ok |-> TRUE, continues |-> TRUE]
        ELSE IF r.res.kind = "NoOp"
        THEN [c |-> c, pushed |-> <<>>, ok |-> FALSE,
              continues |-> NoOpContinues]
        ELSE [c |-> [c EXCEPT !.panicked = TRUE],
              pushed |-> <<>>, ok |-> FALSE, continues |-> FALSE]

\* the stack less its i-th element
Without(stack, i) == SubSeq(stack, 1, i - 1) \o SubSeq(stack, i + 1, Len(stack))

\* the loop run to its end taking the last element (lifo, as the code does) or
\* the first (a queue): the controller it ends with
RECURSIVE CascadeRun(_, _, _, _)
CascadeRun(c, oc, stack, lifo) ==
    IF stack = <<>> \/ c.panicked THEN c
    ELSE LET i == IF lifo THEN Len(stack) ELSE 1
             r == CascadePop(c, oc, stack[i])
         IN  CascadeRun(r.c, oc,
                        IF r.continues THEN Without(stack, i) \o r.pushed ELSE <<>>, lifo)

\* the positions of a sequence as a multiset
SeqToBag(s) == [p \in SeqToSet(s) |-> Cardinality({i \in DOMAIN s : s[i] = p})]

\* reveal_zone_at up to the first pop; the worklist is the stack of the code,
\* or the multiset of its elements when the order of the pops is left open
StartCall(as_bag) ==
    /\ CanCall
    /\ \E p \in Coords :
         LET x == p[1]
             y == p[2]
             r == reveal_at(model, x, y)
             adj == adjacent_positions(r.f, overflow_checks, x, y, FALSE)
             cascades == r.res.kind = "Ok" /\ ~r.res.val
                         /\ mines_adjacent_to(r.f, x, y).val = 0
         IN  /\ model' = r.f
             /\ exploded_mine' = IF r.res.kind = "Ok" /\ r.res.val THEN Some(x, y)
                                 ELSE exploded_mine
             /\ panicked' = (cascades /\ adj.kind = "Panic")
             /\ pc' = IF cascades THEN "cascade" ELSE "playing"
             /\ cascade_stack' = IF cascades /\ as_bag /\ adj.val # <<>> THEN SeqToBag(adj.val)
                                 ELSE IF cascades THEN adj.val
                                 ELSE <<>>
             /\ called_on' = IF cascades THEN Ctl ELSE None
             /\ last' = [op |-> "reveal_zone_at", x |-> x, y |-> y,
                         kind |-> IF cascades
                                  THEN (IF adj.kind = "Panic" THEN "Panic" ELSE "Running")
                                  ELSE r.res.kind,
                         val |-> r.res.val]
    /\ reveals' = 0
    /\ nops' = nops + 1
    /\ UNCHANGED <<arg_width, arg_height, overflow_checks, num_correctly_flagged,
                   arg_num_mines, coordinates>>

StartReveal == StartCall(FALSE)

\* what one iteration leaves in the variables other than the worklist
Popped(r) ==
    /\ model' = r.c.model
    /\ panicked' = r.c.panicked
    /\ reveals' = IF r.ok THEN reveals + 1 ELSE reveals
    /\ last' = IF r.c.panicked THEN [last EXCEPT !.kind = "Panic"] ELSE last
    /\ UNCHANGED <<arg_width, arg_height, overflow_checks, num_correctly_flagged,
                   exploded_mine, nops, arg_num_mines, coordinates, pc, called_on>>

\* stack.pop() and the body of the loop
CascadeStep ==
    /\ pc = "cascade"
    /\ ~panicked
    /\ cascade_stack # <<>>
    /\ LET i == Len(cascade_stack)
           r == CascadePop(Ctl, overflow_checks, cascade_stack[i])
       IN  /\ cascade_stack' = IF r.continues THEN Without(cascade_stack, i) \o r.pushed
                               ELSE <<>>
           /\ Popped(r)

\* the stack is empty: Ok(has_mine)
ReturnFromReveal ==
    /\ pc = "cascade"
    /\ ~panicked
    /\ cascade_stack = <<>>
    /\ pc' = "playing"
    /\ last' = [last EXCEPT !.kind = "Ok"]
    /\ called_on' = None
    /\ reveals' = 0
    /\ UNCHANGED <<arg_width, arg_height, overflow_checks, model, num_correctly_flagged,
                   exploded_mine, panicked, nops, arg_num_mines, coordinates, cascade_stack>>

CascadeNext == StartReveal \/ CascadeStep \/ ReturnFromReveal

\* a running call goes on: the loop is not suspended
CascadeSpec ==
    Init /\ [][CascadeNext]_vars /\ WF_vars(CascadeStep) /\ WF_vars(ReturnFromReveal)

\* ---- the same loop with the order of the pops left open -------------------
\* cascade_stack holds the multiset of the worklist's elements, <<>> when empty
\* (the function of empty domain)
AsWorklist(b) == IF BagToSet(b) = {} THEN <<>> ELSE b

StartWorklist == StartCall(TRUE)

\* any element of the worklist is the one taken
WorklistStep ==
    /\ pc = "cascade"
    /\ ~panicked
    /\ cascade_stack # <<>>
    /\ \E top \in BagToSet(cascade_stack) :
         LET r == CascadePop(Ctl, overflow_checks, top)
         IN  /\ cascade_stack' = IF r.continues
                                 THEN AsWorklist((cascade_stack (-) SetToBag({top}))
                                                 (+) SeqToBag(r.pushed))
                                 ELSE <<>>
             /\ Popped(r)

ReturnFromWorklist ==
    /\ pc = "cascade"
    /\ ~panicked
    /\ cascade_stack = <<>>
    /\ pc' = "playing"
    /\ last' = [last EXCEPT !.kind = "Ok"]
    /\ called_on' = None
    /\ reveals' = 0
    /\ UNCHANGED <<arg_width, arg_height, overflow_checks, model, num_correctly_flagged,
                   exploded_mine, panicked, nops, arg_num_mines, coordinates, cascade_stack>>

WorklistNext == StartWorklist \/ WorklistStep \/ ReturnFromWorklist

\* the grids of at most MaxWorklistCells cells
WorklistInit == Init /\ arg_width * arg_height <= MaxWorklistCells

WorklistSpec == WorklistInit /\ [][WorklistNext]_vars

\* ---- Field::new step by step: the loop of generate_placements ------------
\* the Field before Field::new has returned one
NoField ==
    [num_mines |-> 0, num_flagged |-> 0, num_correctly_flagged |-> 0, exploded |-> FALSE,
     grid |-> <<>>]

NewInit ==
    /\ arg_width \in 1..MaxDim
    /\ arg_height \in 1..MaxDim
    /\ overflow_checks \in BOOLEAN
    /\ arg_num_mines \in 0..MaxMines
    /\ coordinates = {}
    /\ pc = "placing"
    /\ model = NoField
    /\ panicked = FALSE
    /\ last = [op |-> "new", x |-> 0, y |-> 0, kind |-> "Running", val |-> FALSE]
    /\ num_correctly_flagged = 0
    /\ exploded_mine = None
    /\ nops = 0
    /\ cascade_stack = <<>>
    /\ reveals = 0
    /\ called_on = None

\* one iteration of `while coordinates.len() < num_mines`
DrawPlacement ==
    /\ pc = "placing"
    /\ Cardinality(coordinates) < arg_num_mines
    /\ \E x \in 0..(arg_width - 1), y \in 0..(arg_height - 1) :
         coordinates' = coordinates \cup {<<x, y>>}
    /\ UNCHANGED <<arg_width, arg_height, overflow_checks, model, num_correctly_flagged,
                   exploded_mine, panicked, last, nops, arg_num_mines, pc, cascade_stack,
                   reveals, called_on>>

\* the loop is left: the grid is made and the counts are set
BuildField ==
    /\ pc = "placing"
    /\ ~(Cardinality(coordinates) < arg_num_mines)
    /\ LET made == Field_new(arg_width, arg_height, overflow_checks, coordinates)
       IN  /\ model' = made.f
           /\ panicked' = made.panicked
           /\ last' = [last EXCEPT !.kind = IF made.panicked THEN "Panic" ELSE "Ok"]
    /\ pc' = "playing"
    /\ UNCHANGED <<arg_width, arg_height, overflow_checks, num_correctly_flagged,
                   exploded_mine, nops, arg_num_mines, coordinates, cascade_stack, reveals,
                   called_on>>

NewNext == DrawPlacement \/ BuildField

\* every draw of the random number generator is possible again and again, so
\* the loop is left when it can be
NewSpec == NewInit /\ [][NewNext]_vars /\ WF_vars(DrawPlacement) /\ WF_vars(BuildField)

\* ======================= the claims ======================================
InBounds(x, y) == get_zone_at(model, x, y)

LastPos == <<last.x, last.y>>

\* the Zones that are flagged and hold a mine
FlaggedMines(f) == {c \in Cells(f) : ZoneAt(f, c).flagged /\ ZoneAt(f, c).has_mine}

\* the Zones that are revealed and hold a mine
RevealedMines(f) == {c \in Cells(f) : ZoneAt(f, c).revealed /\ ZoneAt(f, c).has_mine}

\* C1: when the controller's reveal is called on an unrevealed Zone without a
\* mine whose adj_mine_count is 0, every other Zone that becomes revealed
\* during that call holds no mine.
C1_CascadeRevealsNoMine ==
    [][(/\ last'.op = "reveal_zone_at"
        /\ get_zone_at(model, last'.x, last'.y)
        /\ ~model.grid[last'.x][last'.y].revealed
        /\ ~model.grid[last'.x][last'.y].has_mine
        /\ model.grid[last'.x][last'.y].adj_mine_count = 0)
       => \A c \in Cells(model) :
              (/\ c # <<last'.x, last'.y>>
               /\ ~ZoneAt(model, c).revealed
               /\ ZoneAt(model', c).revealed) => ~ZoneAt(model, c).has_mine]_vars

\* C2: lost() is true exactly when exploded_mine is set.
C2_LostIffExploded == ~panicked => (lost(Ctl) <=> exploded_mine # None)

\* C3: after any sequence of controller calls, num_correctly_flagged is the
\* number of Zones that are both flagged and mined.
C3_CorrectlyFlaggedCount == num_correctly_flagged = Cardinality(FlaggedMines(model))

\* a flag was just taken off a mined Zone while another mined Zone stays flagged
C3_Witness ==
    /\ last.op = "toggle_flag_at" /\ last.kind = "Ok" /\ ~last.val
    /\ ZoneAt(model, LastPos).has_mine
    /\ num_correctly_flagged = 1

\* C4: won() is true exactly when no flag sits on a Zone without a mine; that
\* holds with no flag placed and does not need every mine to be flagged.
C4_WonIffNoWrongFlag ==
    won(Ctl) <=> (\A c \in Cells(model) : ZoneAt(model, c).flagged => ZoneAt(model, c).has_mine)

\* won() with one mine flagged and another mine left unflagged
C4_Witness ==
    /\ last.op = "toggle_flag_at" /\ last.kind = "Ok"
    /\ won(Ctl)
    /\ model.num_flagged = 1
    /\ model.num_mines = 2

\* won() is false once a flag sits on a Zone without a mine
C4_WitnessNotWon ==
    /\ last.op = "toggle_flag_at" /\ last.kind = "Ok" /\ last.val
    /\ ~ZoneAt(model, LastPos).has_mine
    /\ ~won(Ctl)

\* C5: a reveal of an in-bounds Zone that is already revealed signals NoOp and
\* leaves the Field unchanged; the first reveal of a Zone succeeds.
C5_SecondRevealIsNoOp ==
    [][(/\ last'.op \in {"reveal_zone", "reveal_zone_at"}
        /\ get_zone_at(model, last'.x, last'.y))
       => IF model.grid[last'.x][last'.y].revealed
          THEN /\ last'.kind = "NoOp"
               /\ UNCHANGED <<model, num_correctly_flagged, exploded_mine>>
          ELSE /\ last'.kind = "Ok"
               /\ model'.grid[last'.x][last'.y].revealed
               /\ last'.op = "reveal_zone_at" =>
                      last'.val = model.grid[last'.x][last'.y].has_mine]_vars

\* the coordinates of the grid, as the driver passes them
GridCoords == {p \in Coords : InBounds(p[1], p[2])}

OffGrid ==
    {p \in {0, arg_width - 1, arg_width, UsizeMax} \X {0, arg_height - 1, arg_height, UsizeMax} :
        p[1] >= arg_width \/ p[2] >= arg_height}

\* C7: with x >= width or y >= height every coordinate-taking operation
\* returns its out-of-bounds error, does not panic and changes nothing.
C7_OutOfBoundsIsAnError ==
    ~panicked =>
        \A p \in OffGrid :
            /\ is_flagged_at(model, p[1], p[2]).kind = "None"
            /\ has_mine_at(model, p[1], p[2]).kind = "OutOfBounds"
            /\ is_revealed_at(model, p[1], p[2]).kind = "OutOfBounds"
            /\ mines_adjacent_to(model, p[1], p[2]).kind = "OutOfBounds"
            /\ change_flag_at(model, p[1], p[2], TRUE) =
                   [f |-> model, res |-> Res("OutOfBounds", FALSE)]
            /\ change_flag_at(model, p[1], p[2], FALSE) =
                   [f |-> model, res |-> Res("OutOfBounds", FALSE)]
            /\ reveal_at(model, p[1], p[2]) = [f |-> model, res |-> Res("OutOfBounds", FALSE)]
            /\ flag_zone(model, p[1], p[2]) = [f |-> model, res |-> Res("Err", FALSE)]
            /\ unflag_zone(model, p[1], p[2]) = [f |-> model, res |-> Res("Err", FALSE)]
            /\ reveal_zone(model, overflow_checks, p[1], p[2]) =
                   [f |-> model, res |-> Res("Err", FALSE), panicked |-> FALSE]
            /\ toggle_flag_at(Ctl, p[1], p[2]) = [c |-> Ctl, res |-> Res("Err", FALSE)]
            /\ reveal_zone_at(Ctl, overflow_checks, p[1], p[2]) =
                   [c |-> Ctl, res |-> Res("OutOfBounds", FALSE)]

\* toggle_flag_at(width, 0) has just returned its error on a grid in play
C7_Witness ==
    /\ last.op = "toggle_flag_at" /\ last.kind = "Err"
    /\ last.x = arg_width /\ last.y = 0
    /\ model.num_flagged > 0
    /\ ~panicked

\* the up to 8 neighbours of c on the grid
MooreNeighbours(f, c) ==
    {n \in Cells(f) : /\ n # c
                      /\ n[1] - c[1] \in {-1, 0, 1}
                      /\ n[2] - c[2] \in {-1, 0, 1}}

\* C8: every Zone's adj_mine_count is the number of its neighbours that hold a
\* mine.
C8_CountsMatchNeighbours ==
    ~panicked =>
        \A c \in Cells(model) :
            ZoneAt(model, c).adj_mine_count =
                Cardinality({n \in MooreNeighbours(model, c) : ZoneAt(model, n).has_mine})

\* C9: once exploded_mine holds a coordinate no later call changes it.
C9_ExplodedIsTerminal == [][exploded_mine # None => exploded_mine' = exploded_mine]_vars

\* C10: setting a Zone's flag to the state it already has signals NoOp and
\* changes nothing; otherwise the flag flips and num_flagged moves by one.
C10_SetFlagSignalsNoOp ==
    [][(/\ last'.op \in {"flag_zone", "unflag_zone"}
        /\ get_zone_at(model, last'.x, last'.y))
       => LET desired == (last'.op = "flag_zone")
          IN  IF model.grid[last'.x][last'.y].flagged = desired
              THEN last'.kind = "NoOp" /\ model' = model
              ELSE /\ last'.kind = "Ok"
                   /\ model'.grid[last'.x][last'.y].flagged = desired
                   /\ model'.num_flagged =
                          model.num_flagged + (IF desired THEN 1 ELSE -1)]_vars

\* the Zones that hold a mine
Mines(f) == {c \in Cells(f) : ZoneAt(f, c).has_mine}

\* C11: Field::new with num_mines > width * height ends by signalling an
\* invalid configuration; when Field::new succeeds the grid holds exactly
\* num_mines mines and num_mines <= width * height.
C11_TooManyMinesIsInvalid ==
    /\ (arg_num_mines > arg_width * arg_height) ~> (pc # "placing" /\ last.kind = "Invalid")
    /\ []((pc = "playing" /\ last.kind = "Ok") =>
            /\ Cardinality(Mines(model)) = arg_num_mines
            /\ model.num_mines = arg_num_mines
            /\ arg_num_mines <= arg_width * arg_height)

\* the Zones that are revealed
Revealed(f) == {c \in Cells(f) : ZoneAt(f, c).revealed}

\* C12: every reveal_zone_at call ends with its stack empty, having revealed
\* each Zone at most once: the successful reveals of the cascade are as many as
\* the Zones it newly revealed, at most width * height.
C12_CascadeTerminates ==
    /\ [](pc = "cascade" =>
            /\ reveals + 1 = Cardinality(Revealed(model) \ Revealed(called_on.model))
            /\ reveals <= arg_width * arg_height)
    /\ (pc = "cascade") ~> (pc = "cascade" /\ cascade_stack = <<>> /\ ~panicked)

\* C13: reveal_zone_at on an unrevealed Zone without a mine whose
\* adj_mine_count is not 0 reveals that Zone and no other.
C13_NonzeroRevealsOneCell ==
    [][(/\ last'.op = "reveal_zone_at"
        /\ nops' = nops + 1
        /\ get_zone_at(model, last'.x, last'.y)
        /\ ~model.grid[last'.x][last'.y].revealed
        /\ ~model.grid[last'.x][last'.y].has_mine
        /\ model.grid[last'.x][last'.y].adj_mine_count # 0)
       => /\ last'.kind = "Ok"
          /\ ~last'.val
          /\ Revealed(model') = Revealed(model) \cup {<<last'.x, last'.y>>}
          /\ exploded_mine' = exploded_mine]_vars

\* (0, 0) was just revealed, alone, on a 3x3 grid whose only mine is at (1, 1)
C13_Witness ==
    /\ arg_width = 3 /\ arg_height = 3
    /\ Mines(model) = {<<1, 1>>}
    /\ last.op = "reveal_zone_at" /\ last.kind = "Ok" /\ LastPos = <<0, 0>>
    /\ model.grid[0][0].adj_mine_count = 1
    /\ Revealed(model) = {<<0, 0>>}

\* the up to 4 neighbours of c on the grid that share a side with it
OrthogonalNeighbours(f, c) ==
    {n \in Cells(f) : \/ n[1] = c[1] /\ n[2] - c[2] \in {-1, 1}
                      \/ n[2] = c[2] /\ n[1] - c[1] \in {-1, 1}}

\* C14: on every Zone of the grid, those with x = 0 or y = 0 included,
\* adjacent_positions returns without a panic exactly the neighbours on the
\* grid: the 4 sharing a side, or the 8 of the Moore neighbourhood.
C14_AdjacentPositionsInBounds ==
    ~panicked =>
        \A c \in Cells(model) : \A include_diag \in BOOLEAN :
            LET adj == adjacent_positions(model, overflow_checks, c[1], c[2], include_diag)
            IN  /\ adj.kind = "Ok"
                /\ SeqToSet(adj.val) = IF include_diag THEN MooreNeighbours(model, c)
                                       ELSE OrthogonalNeighbours(model, c)

\* C15: after a reveal_zone_at call has returned, every neighbour sharing a
\* side with a revealed Zone that holds no mine and has adj_mine_count 0 is
\* revealed.
C15_ZeroRegionBorderRevealed ==
    (last.op = "reveal_zone_at" /\ ~panicked) =>
        \A c \in Revealed(model) :
            (~ZoneAt(model, c).has_mine /\ ZoneAt(model, c).adj_mine_count = 0) =>
                OrthogonalNeighbours(model, c) \subseteq Revealed(model)

\* the running call made with the loop taking the last element of the stack
\* (lifo) or the first: the controller it ends with
CallRun(lifo) ==
    LET r == reveal_at(called_on.model, last.x, last.y)
        shown == [called_on EXCEPT !.model = r.f]
        adj == adjacent_positions(r.f, overflow_checks, last.x, last.y, FALSE)
    IN  IF adj.kind = "Panic" THEN [shown EXCEPT !.panicked = TRUE]
        ELSE CascadeRun(shown, overflow_checks, adj.val, lifo)

\* C16: whatever the order in which the cascade takes the elements of its
\* worklist, it ends with the Field it ends with when it takes them as a stack
\* (as reveal_zone_at does) or as a queue, and it panics only if those do.
C16_OrderIndependent ==
    /\ (pc = "cascade" /\ panicked) =>
           /\ CallRun(TRUE).panicked
           /\ CallRun(FALSE).panicked
           /\ reveal_zone_at(called_on, overflow_checks, last.x, last.y).c.panicked
    /\ (pc = "cascade" /\ ~panicked /\ cascade_stack = <<>>) =>
           /\ CallRun(TRUE) = Ctl
           /\ CallRun(FALSE) = Ctl
           /\ reveal_zone_at(called_on, overflow_checks, last.x, last.y).c = Ctl

\* a cascade that revealed three Zones after the first has emptied its worklist
C16_Witness ==
    /\ pc = "cascade" /\ ~panicked /\ cascade_stack = <<>>
    /\ reveals >= 3

\* C17: num_flagged is the number of flagged Zones, between 0 and
\* width * height.
C17_FlaggedCountMatches ==
    /\ model.num_flagged = Cardinality({c \in Cells(model) : ZoneAt(model, c).flagged})
    /\ model.num_flagged >= 0
    /\ model.num_flagged <= arg_width * arg_height

\* three calls, the last a flag_zone, have left two Zones flagged and none
\* revealed
C17_Witness ==
    /\ last.op = "flag_zone" /\ last.kind = "Ok"
    /\ nops = MaxOps
    /\ model.num_flagged = 2
    /\ Revealed(model) = {}

\* C18: exploded_mine is set exactly when a Zone holding a mine is revealed,
\* and then names a revealed Zone of the grid that holds a mine.
C18_ExplodedIffMineRevealed ==
    ~panicked =>
        /\ (exploded_mine # None) <=> (RevealedMines(model) # {})
        /\ (exploded_mine # None) => (exploded_mine \in RevealedMines(model))

\* C19: reveal_zone_at changes no flag and neither count of flags,
\* toggle_flag_at changes neither a Zone's revealed nor exploded_mine, no call
\* changes has_mine or adj_mine_count, and no revealed Zone becomes unrevealed.
C19_FlagAndRevealDoNotInterfere ==
    [][/\ (last'.op = "reveal_zone_at") =>
              /\ \A c \in Cells(model) : ZoneAt(model', c).flagged = ZoneAt(model, c).flagged
              /\ model'.num_flagged = model.num_flagged
              /\ model'.num_correctly_flagged = model.num_correctly_flagged
              /\ num_correctly_flagged' = num_correctly_flagged
       /\ (last'.op = "toggle_flag_at") =>
              /\ Revealed(model') = Revealed(model)
              /\ exploded_mine' = exploded_mine
       /\ Cells(model') = Cells(model)
       /\ \A c \in Cells(model) :
              /\ ZoneAt(model', c).has_mine = ZoneAt(model, c).has_mine
              /\ ZoneAt(model', c).adj_mine_count = ZoneAt(model, c).adj_mine_count
       /\ Revealed(model) \subseteq Revealed(model')]_vars

\* a cascade has just revealed several Zones, a flagged one among them
C19_Witness ==
    /\ last.op = "reveal_zone_at" /\ last.kind = "Ok" /\ ~panicked
    /\ Cardinality(Revealed(model)) >= 3
    /\ \E c \in Revealed(model) : c # LastPos /\ ZoneAt(model, c).flagged
    /\ num_correctly_flagged = 1

\* C20: Field::new returns for every width > 0 and height > 0; then width()
\* is the width given, height() the height given, and get_zone_at finds a Zone
\* exactly at the coordinates with x < width and y < height.
C20_AnySizeConstructs ==
    /\ last.op = "new" => last.kind = "Ok"
    /\ ~panicked =>
           /\ width(model) = arg_width
           /\ height(model) = arg_height
           /\ \A x \in 0..(MaxDim + 1) : \A y \in 0..(MaxDim + 1) :
                  get_zone_at(model, x, y) <=> (x < arg_width /\ y < arg_height)

====
